---------------------------- MODULE Spec2Model ----------------------------
(***************************************************************************)
(* PBKDF2 with HMAC-SHA-1, crypto/pbkdf2.cc.                               *)
(*                                                                         *)
(* The program is hmac_sha1, pkcs5_pbkdf2 and the public pbkdf2.  SHA-1 is *)
(* OpenSSL's and is not part of the program: it is modelled as an          *)
(* uninterpreted function, built lazily in the table sha (every new        *)
(* message gets a fresh digest, the same message the same digest).         *)
(*                                                                         *)
(* A byte is a set of atoms, and XOR is symmetric difference: the atom     *)
(* <<0, k>> is bit k of a known byte, the atom <<n, j>> (n >= 1) is byte j *)
(* of the n-th digest SHA-1 handed out.  The empty set is the byte 0.      *)
(*                                                                         *)
(* size_t and u_int keep a width, scaled down so that the wraps at the     *)
(* ends of their ranges are within reach: SizeBits and UintBits.           *)
(***************************************************************************)
EXTENDS Integers, Sequences, FiniteSets, TLC

SHA1_DIGEST_LENGTH == 20
SHA1_BLOCK_LENGTH == 64

\* Widths of size_t and u_int in the model.
SizeBits == 10
UintBits == 5
\* The largest rounds, and the longest salt pbkdf2 is called with.
MaxRounds == 3
MaxSaltLen == 2

SizeMod == 2 ^ SizeBits
UintMod == 2 ^ UintBits
SIZE_MAX == SizeMod - 1
UINT_MAX == UintMod - 1

VARIABLES
    pc,         \* where the call stands
    args,       \* the call's arguments: entry, pass, salt, key_len, rounds
    key,        \* the caller's key buffer (pbkdf2: the string key)
    keyoff,     \* pkcs5_pbkdf2's key pointer, as an offset into the buffer
    key_len,    \* pkcs5_pbkdf2's key_len: the bytes still to write
    asalt,      \* the memory at asalt
    asize,      \* the size malloc was asked for; -1: no allocation
    obuf, d1, d2, i, count,      \* pkcs5_pbkdf2's locals
    k_pad, tk,  \* hmac_sha1's locals, as its last call left them
    rv,         \* pkcs5_pbkdf2's return value; 1: none yet
    outcome,    \* what the caller has after the call
    sha,        \* SHA-1's graph so far: sha[n] is the message of digest n
    mallocOK,   \* whether malloc returned memory
    overflow,   \* memcpy wrote past the allocation
    hmacCalls,  \* calls of hmac_sha1 in this call
    used,       \* the values of count the blocks of this call were made of
    wrote,      \* the positions of key written in this call
    written,    \* the scratch buffers written in this call
    hm,         \* the last call of hmac_sha1: text, key, digest
    prev        \* the call before this one

prog == <<pc, args, key, keyoff, key_len, asalt, asize, obuf, d1, d2, i,
          count, k_pad, tk, rv, outcome, sha, mallocOK, overflow>>
ghost == <<hmacCalls, used, wrote, written, hm, prev>>
vars == <<prog, ghost>>

----------------------------------------------------------------------------
(* Bytes and buffers *)

Byte(n) == {<<0, k>> : k \in {b \in 0..7 : (n \div (2 ^ b)) % 2 = 1}}

XorByte(a, b) == (a \ b) \cup (b \ a)

Bzero(n) == [j \in 1..n |-> {}]

\* bcopy(src, dst, n), memcpy(dst, src, n): the first n bytes of dst replaced.
Bcopy(src, dst, n) == [j \in 1..Len(dst) |-> IF j <= n THEN src[j] ELSE dst[j]]

XorPad(buf, c) ==
    LET pad == Byte(c) IN [j \in 1..Len(buf) |-> XorByte(buf[j], pad)]

XorBuf(a, b) == [j \in 1..Len(a) |-> XorByte(a[j], b[j])]

IsZero(buf) == \A j \in 1..Len(buf) : buf[j] = {}

\* What memory holds before the program writes it.
Junk(n) == [j \in 1..n |-> Byte(170)]

----------------------------------------------------------------------------
(* SHA-1, OpenSSL's: an uninterpreted function *)

Digest(n) == [j \in 1..SHA1_DIGEST_LENGTH |-> {<<n, j>>}]

Known(tab, m) == \E n \in 1..Len(tab) : tab[n] = m

Sha1(tab, m) ==
    LET at == {n \in 1..Len(tab) : tab[n] = m}
    IN  IF at # {}
        THEN [tab |-> tab, digest |-> Digest(CHOOSE n \in at : TRUE)]
        ELSE [tab |-> Append(tab, m), digest |-> Digest(Len(tab) + 1)]

----------------------------------------------------------------------------
(* hmac_sha1 *)

\* A key of exactly the block length hashed too.
KeyTooLongGe(klen) == klen >= SHA1_BLOCK_LENGTH

\* if (key_len > SHA1_BLOCK_LENGTH)
KeyTooLong(klen) == klen > SHA1_BLOCK_LENGTH

\* hmac_sha1(text, text_len, key, key_len, digest), with SHA-1's graph tab
\* and tk0, what tk holds on entry.
HmacSha1(tab, text, hkey, tk0) ==
    LET long == KeyTooLong(Len(hkey))
        h0 == IF long THEN Sha1(tab, hkey) ELSE [tab |-> tab, digest |-> tk0]
        k == IF long THEN h0.digest ELSE hkey
        klen == IF long THEN SHA1_DIGEST_LENGTH ELSE Len(hkey)
        ipad == XorPad(Bcopy(k, Bzero(SHA1_BLOCK_LENGTH), klen), 54)
        h1 == Sha1(h0.tab, ipad \o text)
        opad == XorPad(Bcopy(k, Bzero(SHA1_BLOCK_LENGTH), klen), 92)
        h2 == Sha1(h1.tab, opad \o h1.digest)
    IN  [tab |-> h2.tab, digest |-> h2.digest, k_pad |-> opad,
         tk |-> h0.digest, long |-> long]

----------------------------------------------------------------------------
(* The arguments of a call *)

PassOf(n) == [j \in 1..n |-> Byte((111 + j) % 256)]
SaltOf(n) == [j \in 1..n |-> Byte((114 + j) % 256)]

PassLens == {0, 1, SHA1_BLOCK_LENGTH, SHA1_BLOCK_LENGTH + 1}

KeyLens == {0, 1, SHA1_DIGEST_LENGTH - 1, SHA1_DIGEST_LENGTH,
            SHA1_DIGEST_LENGTH + 1, UINT_MAX}

\* pbkdf2(pass, salt, key_len, rounds): two strings and two uints.
PublicArgs ==
    [entry : {"pbkdf2"},
     pass : {PassOf(n) : n \in PassLens},
     salt : {SaltOf(n) : n \in 0..MaxSaltLen},
     key_len : KeyLens,
     rounds : 0..MaxRounds]

\* pkcs5_pbkdf2 on its own, with the size_t arguments pbkdf2 cannot pass: a
\* salt at the end of size_t's range, a key of more than UINT_MAX blocks.
CoreArgs ==
    [entry : {"pkcs5_pbkdf2"},
     pass : {PassOf(1)},
     salt : {SaltOf(n) : n \in (SIZE_MAX - 4)..SIZE_MAX},
     key_len : {0, 1},
     rounds : {0, 1}]
    \cup
    [entry : {"pkcs5_pbkdf2"},
     pass : {PassOf(1)},
     salt : {SaltOf(1)},
     key_len : {SHA1_DIGEST_LENGTH * UINT_MAX, SHA1_DIGEST_LENGTH * UINT_MAX + 1},
     rounds : {1}]

Args == PublicArgs \cup CoreArgs

NoCall == [set |-> FALSE]

----------------------------------------------------------------------------
(* pkcs5_pbkdf2 and pbkdf2, step by step *)

\* pbkdf2 resizes its string to key_len zero bytes; pkcs5_pbkdf2's own caller
\* hands it a buffer of key_len bytes.
KeyBuffer(a) ==
    IF a.entry = "pbkdf2" THEN Bzero(a.key_len) ELSE Junk(a.key_len)

Enter(a) ==
    /\ args' = a
    /\ key' = KeyBuffer(a)
    /\ keyoff' = 0
    /\ key_len' = a.key_len
    /\ asalt' = <<>>
    /\ asize' = -1
    /\ rv' = 1
    /\ outcome' = [status |-> "running"]
    /\ mallocOK' = FALSE
    /\ overflow' = FALSE
    /\ hmacCalls' = 0
    /\ used' = <<>>
    /\ wrote' = {}
    /\ written' = {}
    /\ hm' = [called |-> FALSE]
    /\ pc' = "validate"
    /\ UNCHANGED <<obuf, d1, d2, i, count, k_pad, tk, sha>>

Call ==
    /\ pc = "idle"
    /\ \E a \in Args : Enter(a)
    /\ UNCHANGED prev

\* The caller derives again from the same password, salt and rounds.
Retry ==
    /\ pc = "done"
    /\ ~prev.set
    /\ \E a \in Args :
        /\ a.entry = args.entry
        /\ a.pass = args.pass
        /\ a.salt = args.salt
        /\ a.rounds = args.rounds
        /\ Enter(a)
    /\ prev' = [set |-> TRUE, args |-> args, mallocOK |-> mallocOK,
                outcome |-> outcome]

\* The check of key_len left out.
RoundsInvalidOnly(rounds, klen) == rounds < 1

\* if (rounds < 1 || key_len == 0)
RoundsOrKeyLenInvalid(rounds, klen) == rounds < 1 \/ klen = 0

\* if (salt_len == 0 || salt_len > SIZE_MAX - 1)
SaltLenInvalid(slen) == slen = 0 \/ slen > SIZE_MAX - 1

Validate ==
    /\ pc = "validate"
    /\ IF \/ RoundsOrKeyLenInvalid(args.rounds, key_len)
          \/ SaltLenInvalid(Len(args.salt))
       THEN rv' = -1 /\ pc' = "ret"
       ELSE rv' = rv /\ pc' = "malloc"
    /\ UNCHANGED <<args, key, keyoff, key_len, asalt, asize, obuf, d1, d2, i,
                   count, k_pad, tk, outcome, sha, mallocOK, overflow, ghost>>

\* salt_len + 4, in size_t.
AsaltLen(slen) == (slen + 4) % SizeMod

Malloc ==
    /\ pc = "malloc"
    /\ asize' = AsaltLen(Len(args.salt))
    /\ \/ /\ mallocOK' = TRUE
          /\ asalt' = Junk(asize')
          /\ rv' = rv
          /\ pc' = "memcpy"
       \/ /\ mallocOK' = FALSE
          /\ asalt' = asalt
          /\ rv' = -1
          /\ pc' = "ret"
    /\ UNCHANGED <<args, key, keyoff, key_len, obuf, d1, d2, i, count, k_pad,
                   tk, outcome, sha, overflow, ghost>>

\* memcpy(asalt, salt, salt_len), and count = 1.  Past the end of the
\* allocation the behaviour is undefined: the process dies, or the bytes land
\* in the memory behind it and the call goes on.
CountInit == 1

CopySalt ==
    /\ pc = "memcpy"
    /\ IF Len(args.salt) <= asize
       THEN /\ asalt' = Bcopy(args.salt, asalt, Len(args.salt))
            /\ overflow' = overflow
            /\ pc' = "loop"
       ELSE \/ /\ asalt' = args.salt \o Junk(4)
               /\ overflow' = TRUE
               /\ pc' = "loop"
            \/ /\ asalt' = asalt
               /\ overflow' = TRUE
               /\ pc' = "crashed"
    /\ count' = CountInit
    /\ written' = written \cup {"asalt"}
    /\ UNCHANGED <<args, key, keyoff, key_len, asize, obuf, d1, d2, i, k_pad,
                   tk, rv, outcome, sha, mallocOK, hmacCalls, used, wrote, hm,
                   prev>>

\* The four bytes of count, least significant first.
CountBytesLE(c) ==
    <<Byte(c % 256), Byte((c \div (2 ^ 8)) % 256),
      Byte((c \div (2 ^ 16)) % 256), Byte((c \div (2 ^ 24)) % 256)>>

\* The four bytes of count, most significant first.
CountBytes(c) ==
    <<Byte((c \div (2 ^ 24)) % 256), Byte((c \div (2 ^ 16)) % 256),
      Byte((c \div (2 ^ 8)) % 256), Byte(c % 256)>>

\* asalt[salt_len + 0 .. salt_len + 3] = the bytes of count.
PutCount(buf, slen, c) ==
    [j \in 1..Len(buf) |->
        IF j > slen /\ j <= slen + 4 THEN CountBytes(c)[j - slen] ELSE buf[j]]

\* The accumulator left as it was.
AccInitStale(dig1, old) == old

\* memcpy(obuf, d1, sizeof(obuf)): the accumulator starts as the first digest.
AccInit(dig1, old) == dig1

\* The loop's head with key_len > 0, to the end of the first HMAC.
Block ==
    /\ pc = "loop"
    /\ key_len > 0
    /\ LET slen == Len(args.salt)
           a == PutCount(asalt, slen, count)
           text == SubSeq(a, 1, AsaltLen(slen))
           h == HmacSha1(sha, text, args.pass, tk)
       IN  /\ asalt' = a
           /\ d1' = h.digest
           /\ obuf' = AccInit(h.digest, obuf)
           /\ sha' = h.tab
           /\ k_pad' = h.k_pad
           /\ tk' = h.tk
           /\ hm' = [called |-> TRUE, text |-> text, key |-> args.pass,
                     digest |-> h.digest]
           /\ written' = written \cup {"d1", "obuf", "k_pad"}
                            \cup (IF h.long THEN {"tk"} ELSE {})
    /\ i' = 1
    /\ hmacCalls' = hmacCalls + 1
    /\ used' = Append(used, count)
    /\ pc' = "round"
    /\ UNCHANGED <<args, key, keyoff, key_len, asize, d2, count, rv, outcome,
                   mallocOK, overflow, wrote, prev>>

\* What the next HMAC of a block is taken of.
ChainInput(dig1, acc) == dig1

Round ==
    /\ pc = "round"
    /\ i < args.rounds
    /\ LET text == ChainInput(d1, obuf)
           h == HmacSha1(sha, text, args.pass, tk)
       IN  /\ d2' = h.digest
           /\ d1' = h.digest
           /\ obuf' = XorBuf(obuf, h.digest)
           /\ sha' = h.tab
           /\ k_pad' = h.k_pad
           /\ tk' = h.tk
           /\ hm' = [called |-> TRUE, text |-> text, key |-> args.pass,
                     digest |-> h.digest]
           /\ written' = written \cup {"d2", "k_pad"}
                            \cup (IF h.long THEN {"tk"} ELSE {})
    /\ i' = (i + 1) % UintMod
    /\ hmacCalls' = hmacCalls + 1
    /\ pc' = "round"
    /\ UNCHANGED <<args, key, keyoff, key_len, asalt, asize, count, rv,
                   outcome, mallocOK, overflow, used, wrote, prev>>

\* A whole digest copied whatever is left.
CopyLenFull(klen) == SHA1_DIGEST_LENGTH

\* r = MIN(key_len, SHA1_DIGEST_LENGTH).
CopyLen(klen) == IF klen < SHA1_DIGEST_LENGTH THEN klen ELSE SHA1_DIGEST_LENGTH

\* The last r bytes of the accumulator in place of the first.
BlockBytesTail(acc, r) == SubSeq(acc, SHA1_DIGEST_LENGTH - r + 1, SHA1_DIGEST_LENGTH)

\* memcpy(key, obuf, r): the bytes of the accumulator a block gives.
BlockBytes(acc, r) == SubSeq(acc, 1, r)

\* count++ in a counter of a single bit.
NextCountNarrow(c) == (c + 1) % 2

\* count++, in u_int.
NextCount(c) == (c + 1) % UintMod

\* The end of a block: the bytes of obuf into key, and count++.
Emit ==
    /\ pc = "round"
    /\ ~(i < args.rounds)
    /\ LET r == CopyLen(key_len)
       IN  /\ key' = [p \in 1..Len(key) |->
                        IF p > keyoff /\ p <= keyoff + r
                        THEN BlockBytes(obuf, r)[p - keyoff] ELSE key[p]]
           /\ wrote' = wrote \cup ((keyoff + 1)..(keyoff + r))
           /\ keyoff' = keyoff + r
           /\ key_len' = (key_len - r) % SizeMod
    /\ count' = NextCount(count)
    /\ pc' = "loop"
    /\ UNCHANGED <<args, asalt, asize, obuf, d1, d2, i, k_pad, tk, rv, outcome,
                   sha, mallocOK, overflow, hmacCalls, used, written, hm, prev>>

\* After the loop: bzero(asalt, salt_len + 4), free, and the three digests
\* zeroed.
Cleanup ==
    /\ pc = "loop"
    /\ key_len = 0
    /\ asalt' = Bcopy(Bzero(Len(asalt)), asalt, AsaltLen(Len(args.salt)))
    /\ d1' = Bzero(SHA1_DIGEST_LENGTH)
    /\ d2' = Bzero(SHA1_DIGEST_LENGTH)
    /\ obuf' = Bzero(SHA1_DIGEST_LENGTH)
    /\ rv' = 0
    /\ pc' = "ret"
    /\ UNCHANGED <<args, key, keyoff, key_len, asize, i, count, k_pad, tk,
                   outcome, sha, mallocOK, overflow, ghost>>

\* pbkdf2 without its throw_c: the key returned whatever r is.
OutcomeNoThrow(entry, r, buf) == [status |-> "key", key |-> buf]

\* pbkdf2: throw_c(r == 0), then return key.  pkcs5_pbkdf2's own caller has
\* the return value and its buffer.
Outcome(entry, r, buf) ==
    IF entry = "pbkdf2"
    THEN IF r = 0 THEN [status |-> "key", key |-> buf]
                  ELSE [status |-> "failed"]
    ELSE IF r = 0 THEN [status |-> "key", key |-> buf]
                  ELSE [status |-> "failed", key |-> buf]

Return ==
    /\ pc = "ret"
    /\ outcome' = Outcome(args.entry, rv, key)
    /\ pc' = "done"
    /\ UNCHANGED <<args, key, keyoff, key_len, asalt, asize, obuf, d1, d2, i,
                   count, k_pad, tk, rv, sha, mallocOK, overflow, ghost>>

Init ==
    /\ pc = "idle"
    /\ args = [entry |-> "none"]
    /\ key = <<>>
    /\ keyoff = 0
    /\ key_len = 0
    /\ asalt = <<>>
    /\ asize = -1
    /\ obuf = Junk(SHA1_DIGEST_LENGTH)
    /\ d1 = Junk(SHA1_DIGEST_LENGTH)
    /\ d2 = Junk(SHA1_DIGEST_LENGTH)
    /\ i = 0
    /\ count = 0
    /\ k_pad = Junk(SHA1_BLOCK_LENGTH)
    /\ tk = Junk(SHA1_DIGEST_LENGTH)
    /\ rv = 1
    /\ outcome = [status |-> "running"]
    /\ sha = <<>>
    /\ mallocOK = FALSE
    /\ overflow = FALSE
    /\ hmacCalls = 0
    /\ used = <<>>
    /\ wrote = {}
    /\ written = {}
    /\ hm = [called |-> FALSE]
    /\ prev = NoCall

Next ==
    \/ Call
    \/ Retry
    \/ Validate
    \/ Malloc
    \/ CopySalt
    \/ Block
    \/ Round
    \/ Emit
    \/ Cleanup
    \/ Return

Spec == Init /\ [][Next]_vars

----------------------------------------------------------------------------
(* What the claims are stated with: HMAC and PBKDF2 as RFC 2104 and        *)
(* RFC 2898 define them, over SHA-1's graph as it stands.                  *)

\* A digest SHA-1 never handed out: the hash of a message never hashed.
NoDigest == Digest(0 - 1)

HashOf(m) ==
    LET at == {n \in 1..Len(sha) : sha[n] = m}
    IN  IF at # {} THEN Digest(CHOOSE n \in at : TRUE) ELSE NoDigest

PadTo(k, c) ==
    LET pad == Byte(c)
    IN  [j \in 1..SHA1_BLOCK_LENGTH |->
            XorByte(IF j <= Len(k) THEN k[j] ELSE {}, pad)]

RefHmac(text, hkey) ==
    LET ek == IF Len(hkey) > SHA1_BLOCK_LENGTH THEN HashOf(hkey) ELSE hkey
    IN  HashOf(PadTo(ek, 92) \o HashOf(PadTo(ek, 54) \o text))

BigEndian4(c) == [j \in 1..4 |-> Byte((c \div (256 ^ (4 - j))) % 256)]

\* U_n xor ... xor U_rounds xor acc, from u = U_(n-1).
RECURSIVE RefFold(_, _, _)
RefFold(u, acc, n) ==
    IF n > args.rounds THEN acc
    ELSE LET un == RefHmac(u, args.pass)
         IN  RefFold(un, XorBuf(acc, un), n + 1)

\* T_c = U_1 xor ... xor U_rounds.
RefT(c) ==
    LET u1 == RefHmac(args.salt \o BigEndian4(c), args.pass)
    IN  RefFold(u1, u1, 2)

\* T_c || ... || T_nb
RECURSIVE RefStream(_, _)
RefStream(c, nb) == IF c > nb THEN <<>> ELSE RefT(c) \o RefStream(c + 1, nb)

NBlocks(len) == (len + SHA1_DIGEST_LENGTH - 1) \div SHA1_DIGEST_LENGTH

RefKey(len) == SubSeq(RefStream(1, NBlocks(len)), 1, len)

\* The salt leaves room for the four bytes of the counter.
SaltFits(a) == Len(a.salt) >= 1 /\ Len(a.salt) <= SIZE_MAX - 4

\* A valid input: rounds, key length and salt as the design asks, and no more
\* blocks than the 32-bit block index counts.
ValidInput(a) ==
    /\ a.rounds >= 1
    /\ a.key_len >= 1
    /\ SaltFits(a)
    /\ NBlocks(a.key_len) <= UINT_MAX

Returned == pc = "done"

----------------------------------------------------------------------------
(* The claims *)

\* C1: on a valid input pkcs5_pbkdf2 returns 0 unless malloc failed, and then
\* the key buffer holds the first key_len bytes of T_1 || T_2 || ..., T_c the
\* XOR of U_1 .. U_rounds, U_1 = HMAC(salt || big-endian c, password),
\* U_i = HMAC(U_(i-1), password); the blocks are made with c = 1, 2, ... and
\* HMAC is called rounds times per block.
C1_KeyIsPbkdf2 ==
    (Returned /\ ValidInput(args)) =>
        /\ (rv = 0) = mallocOK
        /\ rv = 0 =>
            /\ key = RefKey(args.key_len)
            /\ used = [c \in 1..NBlocks(args.key_len) |-> c]
            /\ hmacCalls = args.rounds * NBlocks(args.key_len)

C1_Witness ==
    /\ Returned
    /\ ValidInput(args)
    /\ rv = 0
    /\ args.rounds = 3
    /\ args.key_len = SHA1_DIGEST_LENGTH + 1
    /\ key = RefKey(args.key_len)

\* C2: the cursor and the remaining length always add up to the requested
\* length, the positions written are those before the cursor, and a call that
\* returns 0 has written all key_len positions in ceil(key_len / 20) blocks,
\* with remaining length 0; the key pbkdf2 returns has length key_len.
C2_KeyLength ==
    (pc \notin {"idle", "crashed"}) =>
        /\ Len(key) = args.key_len
        /\ keyoff + key_len = args.key_len
        /\ wrote = 1..keyoff
        /\ Len(used) = NBlocks(keyoff) + (IF pc = "round" THEN 1 ELSE 0)
        /\ (pc = "loop" /\ key_len > 0) => keyoff = SHA1_DIGEST_LENGTH * Len(used)
        /\ rv = 0 =>
            /\ key_len = 0
            /\ wrote = 1..args.key_len
            /\ Len(used) = NBlocks(args.key_len)
        /\ (Returned /\ rv = 0) => Len(outcome.key) = args.key_len

C2_Witness ==
    /\ Returned
    /\ rv = 0
    /\ args.entry = "pbkdf2"
    /\ args.key_len = SHA1_DIGEST_LENGTH + 1
    /\ Len(outcome.key) = SHA1_DIGEST_LENGTH + 1
    /\ Len(used) = 2

\* C3: with rounds = 0, key_len = 0 or an empty salt pkcs5_pbkdf2 returns -1
\* and the caller gets a failure (pbkdf2: and no key), whatever the other
\* arguments; an empty password with the rest valid fails only when malloc
\* failed.
C3_Validation ==
    /\ (/\ pc \in {"ret", "done"}
        /\ (args.rounds = 0 \/ args.key_len = 0 \/ args.salt = <<>>))
       => /\ rv = -1
          /\ Returned =>
                /\ outcome.status = "failed"
                /\ (args.entry = "pbkdf2" => "key" \notin DOMAIN outcome)
    /\ (Returned /\ args.pass = <<>> /\ ValidInput(args))
       => (outcome.status = "failed") = ~mallocOK

C3_Witness ==
    /\ Returned
    /\ args.salt = <<>>
    /\ args.pass = <<>>
    /\ args.rounds >= 1
    /\ args.key_len >= 1
    /\ outcome.status = "failed"

C3_EmptyPasswordWitness ==
    /\ Returned
    /\ args.pass = <<>>
    /\ ValidInput(args)
    /\ outcome.status = "key"

\* C4: a salt with salt_len > SIZE_MAX - 4 is rejected before any allocation:
\* once past the checks the call has returned -1 and malloc was never asked.
C4_SaltOverflowRejected ==
    (pc \notin {"idle", "validate"} /\ Len(args.salt) > SIZE_MAX - 4) =>
        rv = -1 /\ asize = -1

\* The allocation the check lets through: smaller than salt_len + 4.
C4_WrappedAllocation ==
    /\ pc = "memcpy"
    /\ asize < Len(args.salt) + 4

\* C5: when a call has returned, every scratch buffer it wrote is zero:
\* asalt, d1, d2, obuf, and hmac_sha1's k_pad and tk.  Stated of the calls
\* with a password of at least one byte, whose k_pad holds bytes of it.
C5_ScratchScrubbed ==
    (Returned /\ ~overflow /\ args.pass # <<>>) =>
        /\ "asalt" \in written => IsZero(asalt)
        /\ "d1" \in written => IsZero(d1)
        /\ "d2" \in written => IsZero(d2)
        /\ "obuf" \in written => IsZero(obuf)
        /\ "k_pad" \in written => IsZero(k_pad)
        /\ "tk" \in written => IsZero(tk)

\* What does hold: pkcs5_pbkdf2's own buffers are zero.
C5_OwnBuffersScrubbed ==
    (Returned /\ ~overflow) =>
        /\ "asalt" \in written => IsZero(asalt)
        /\ "d1" \in written => IsZero(d1)
        /\ "d2" \in written => IsZero(d2)
        /\ "obuf" \in written => IsZero(obuf)

\* C6: a call that returns -1 has computed no HMAC and written no byte of the
\* key buffer, and its caller has a failure: pbkdf2's caller no key at all,
\* pkcs5_pbkdf2's caller its buffer as it was.
C6_FailsBeforeComputing ==
    (pc \in {"ret", "done"} /\ rv = -1) =>
        /\ hmacCalls = 0
        /\ ~hm.called
        /\ wrote = {}
        /\ written = {}
        /\ key = KeyBuffer(args)
        /\ Returned =>
            /\ outcome.status = "failed"
            /\ (args.entry = "pbkdf2" => "key" \notin DOMAIN outcome)

C6_Witness ==
    /\ Returned
    /\ rv = -1
    /\ asize >= 0
    /\ ~mallocOK
    /\ args.entry = "pbkdf2"
    /\ args.key_len = SHA1_DIGEST_LENGTH + 1
    /\ outcome = [status |-> "failed"]

BothKeys ==
    /\ Returned
    /\ prev.set
    /\ outcome.status = "key"
    /\ prev.outcome.status = "key"

\* C7: of two keys derived from the same password, valid salt and rounds, the
\* shorter is the prefix of the longer.
C7_PrefixStable ==
    (BothKeys /\ SaltFits(args)) =>
        LET K == args.key_len
            L == prev.args.key_len
        IN  /\ K <= L => outcome.key = SubSeq(prev.outcome.key, 1, K)
            /\ L <= K => prev.outcome.key = SubSeq(outcome.key, 1, L)

C7_Witness ==
    /\ BothKeys
    /\ SaltFits(args)
    /\ args.rounds = 2
    /\ args.key_len = SHA1_DIGEST_LENGTH - 1
    /\ prev.args.key_len = SHA1_DIGEST_LENGTH + 1
    /\ outcome.key = SubSeq(prev.outcome.key, 1, SHA1_DIGEST_LENGTH - 1)

SameCallAgain ==
    /\ Returned
    /\ prev.set
    /\ args.entry = "pbkdf2"
    /\ args = prev.args

\* C8 as claimed: two calls of pbkdf2 with the same four arguments have the
\* same outcome.
C8_SameArgsSameOutcome == SameCallAgain => outcome = prev.outcome

\* C8 as amended: two calls of pbkdf2 with the same four arguments in which
\* malloc has the same result have the same outcome.
C8_Deterministic ==
    (SameCallAgain /\ mallocOK = prev.mallocOK) => outcome = prev.outcome

C8_Witness ==
    /\ SameCallAgain
    /\ mallocOK
    /\ prev.mallocOK
    /\ args.rounds = 2
    /\ args.key_len = SHA1_DIGEST_LENGTH + 1
    /\ outcome.status = "key"
    /\ outcome = prev.outcome

\* C9: hmac_sha1(text, key) is hash(opad || hash(ipad || text)), the pads the
\* effective key zero-padded to 64 bytes and XORed with 0x36 and 0x5c, the
\* effective key hash(key) exactly when the key is longer than 64 bytes; an
\* empty key gives pads of 64 bytes 0x36 and 64 bytes 0x5c.
C9_HmacIsRfc2104 ==
    hm.called =>
        /\ hm.digest = RefHmac(hm.text, hm.key)
        /\ hm.digest # NoDigest
        /\ Len(hm.key) = 0 =>
            hm.digest = HashOf([j \in 1..SHA1_BLOCK_LENGTH |-> Byte(92)]
                            \o HashOf([j \in 1..SHA1_BLOCK_LENGTH |-> Byte(54)]
                                        \o hm.text))
        /\ Len(hm.key) <= SHA1_BLOCK_LENGTH => ~Known(sha, hm.key)
        /\ Len(hm.key) > SHA1_BLOCK_LENGTH =>
            /\ Known(sha, hm.key)
            /\ k_pad = PadTo(HashOf(hm.key), 92)

C9_Witness ==
    /\ hm.called
    /\ Len(hm.key) = SHA1_BLOCK_LENGTH + 1
    /\ hm.digest = RefHmac(hm.text, hm.key)
    /\ hm.digest # NoDigest

C9_BlockLengthKeyWitness ==
    /\ hm.called
    /\ Len(hm.key) = SHA1_BLOCK_LENGTH
    /\ ~Known(sha, hm.key)

Distinct(seq) == \A m, n \in 1..Len(seq) : m # n => seq[m] # seq[n]

\* C10: in a call through pbkdf2 the block counter is in 1..ceil(key_len / 20)
\* while a block is made, never 0, and no two blocks have the same counter; a
\* counter that is 0 or repeats means pkcs5_pbkdf2 was called with a key_len of
\* more than UINT_MAX blocks.
C10_CounterNeverWraps ==
    /\ (args.entry = "pbkdf2" /\ pc \in {"loop", "round", "ret", "done"}) =>
        /\ \A n \in 1..Len(used) :
              used[n] = n /\ used[n] \in 1..NBlocks(args.key_len)
        /\ (pc = "round" \/ (pc = "loop" /\ key_len > 0)) =>
              count \in 1..NBlocks(args.key_len)
        /\ pc = "loop" => count # 0
    /\ (pc \in {"loop", "round", "ret", "done"}
        /\ (~Distinct(used) \/ \E n \in 1..Len(used) : used[n] = 0)) =>
        /\ args.entry = "pkcs5_pbkdf2"
        /\ NBlocks(args.key_len) > UINT_MAX

C10_Witness ==
    /\ Returned
    /\ args.entry = "pbkdf2"
    /\ args.key_len = UINT_MAX
    /\ rv = 0
    /\ used = [c \in 1..NBlocks(UINT_MAX) |-> c]
    /\ count = NBlocks(UINT_MAX) + 1

\* The wrap, reached through pkcs5_pbkdf2.
C10_WrapReached ==
    /\ args.entry = "pkcs5_pbkdf2"
    /\ pc = "round"
    /\ count = 0
    /\ Len(used) = UINT_MAX + 1

=============================================================================
